---- MODULE Spec2Model ----
(***************************************************************************)
(* Model of the CBZ sanitizer (sanitize.py): the batch loop of main, the   *)
(* extraction of the archive members into a scoped temporary directory,    *)
(* the recursive in-place resize of the extracted images, and the          *)
(* repackaging that renames the input to its "-orig" backup and writes a   *)
(* new archive at the input path.                                          *)
(*                                                                         *)
(* Paths, file names and archive member names are strings, handled the     *)
(* way the code and the os.path / zipfile routines it calls handle them.   *)
(* The filesystem is a function from absolute paths to nodes.              *)
(***************************************************************************)
EXTENDS Integers, Sequences, FiniteSets, TLC

(***************************************************************************)
(* Strings                                                                 *)
(***************************************************************************)

\* characters that occur in the names of the model, in code point order
Alphabet == "-./0123456789_abcdefghijklmnopqrstuvwxyz"

Chr(s, k) == SubSeq(s, k, k)

Ord(c) == CHOOSE k \in 1..Len(Alphabet) : Chr(Alphabet, k) = c

\* str.startswith
StartsWith(s, p) == Len(s) >= Len(p) /\ SubSeq(s, 1, Len(p)) = p

\* str.rfind, 1-based, 0 when the character does not occur
RFind(s, c) ==
    LET hits == {k \in 1..Len(s) : Chr(s, k) = c}
    IN  IF hits = {} THEN 0 ELSE CHOOSE k \in hits : \A j \in hits : j <= k

\* the order of Python's str comparison (code points, shorter prefix first)
RECURSIVE StrLess(_, _)
StrLess(a, b) ==
    IF Len(b) = 0 THEN FALSE
    ELSE IF Len(a) = 0 THEN TRUE
    ELSE IF Chr(a, 1) = Chr(b, 1) THEN StrLess(Tail(a), Tail(b))
    ELSE Ord(Chr(a, 1)) < Ord(Chr(b, 1))

\* sorted() of a set of strings
RECURSIVE sorted(_)
sorted(S) ==
    IF S = {} THEN << >>
    ELSE LET m == CHOOSE x \in S : \A y \in S : y = x \/ StrLess(x, y)
         IN  <<m>> \o sorted(S \ {m})

\* str.split('/')
RECURSIVE Split(_)
Split(s) ==
    LET hits == {k \in 1..Len(s) : Chr(s, k) = "/"}
    IN  IF hits = {} THEN <<s>>
        ELSE LET k == CHOOSE x \in hits : \A y \in hits : x <= y
             IN  <<SubSeq(s, 1, k - 1)>> \o Split(SubSeq(s, k + 1, Len(s)))

\* '/'.join
RECURSIVE Join(_)
Join(parts) ==
    IF Len(parts) = 0 THEN ""
    ELSE IF Len(parts) = 1 THEN parts[1]
    ELSE parts[1] \o "/" \o Join(Tail(parts))

(***************************************************************************)
(* os.path                                                                 *)
(***************************************************************************)

\* os.path.join(root, fname) for a relative fname
PathJoin(root, fname) == root \o "/" \o fname

\* os.path.dirname of an absolute path ("/" for a child of the root)
dirname(p) ==
    LET k == RFind(p, "/") IN IF k <= 1 THEN "/" ELSE SubSeq(p, 1, k - 1)

basename(p) == SubSeq(p, RFind(p, "/") + 1, Len(p))

\* p lies strictly below directory d
Under(d, p) == StartsWith(p, d \o "/") /\ Len(p) > Len(d) + 1

\* os.path.relpath(p, d) for p below d
relpath(p, d) == SubSeq(p, Len(d) + 2, Len(p))

\* os.path.splitext: the extension starts at the last dot of the last
\* component, unless only dots precede it there
splitext(p) ==
    LET sep == RFind(p, "/")
        dot == RFind(p, ".")
    IN  IF dot > sep /\ \E k \in (sep + 1)..(dot - 1) : Chr(p, k) # "."
        THEN <<SubSeq(p, 1, dot - 1), SubSeq(p, dot, Len(p))>>
        ELSE <<p, "">>

(***************************************************************************)
(* The filesystem: a function from the absolute paths that exist to nodes. *)
(* A node is a directory, a file that is neither an archive nor an image   *)
(* ("raw"), an image or a zip archive.  The root directory is "".          *)
(***************************************************************************)

DirNode == [kind |-> "dir"]

NoPath == "?"

IsDirAt(f, p) == p = "" \/ (p \in DOMAIN f /\ f[p].kind = "dir")

Parent(p) == IF p = "" THEN "" ELSE SubSeq(p, 1, RFind(p, "/") - 1)

\* path resolution as the kernel does it: every component is looked up in
\* an existing directory, ".." is the parent of the directory reached
RECURSIVE Walk(_, _, _)
Walk(f, cur, comps) ==
    IF Len(comps) = 0 THEN cur
    ELSE IF ~IsDirAt(f, cur) THEN NoPath
    ELSE IF Head(comps) \in {"", "."} THEN Walk(f, cur, Tail(comps))
    ELSE IF Head(comps) = ".." THEN Walk(f, Parent(cur), Tail(comps))
    ELSE Walk(f, cur \o "/" \o Head(comps), Tail(comps))

Resolve(f, p) == Walk(f, "", Split(p))

\* os.path.exists / isfile / isdir
exists(f, p) == LET r == Resolve(f, p) IN r # NoPath /\ (r = "" \/ r \in DOMAIN f)

isdir(f, p) == LET r == Resolve(f, p) IN r # NoPath /\ IsDirAt(f, r)

isfile(f, p) == exists(f, p) /\ ~isdir(f, p)

\* os.path.getsize of a regular file
getsize(f, p) == f[p].bytes

\* os.listdir: the names of the children of directory d
listdir(f, d) == {basename(p) : p \in {q \in DOMAIN f : dirname(q) = d /\ q # d}}

\* the directories above p, up to the root (created by os.makedirs)
RECURSIVE Ancestors(_)
Ancestors(p) ==
    LET d == Parent(p) IN IF d = "" THEN {} ELSE {d} \union Ancestors(d)

\* open(p, 'wb') + write + close, after os.makedirs of the directories above
WriteFile(f, p, node) ==
    [q \in DOMAIN f \union Ancestors(p) \union {p} |->
        IF q = p THEN node
        ELSE IF q \in DOMAIN f THEN f[q] ELSE DirNode]

\* os.mkdir of p after os.makedirs of the directories above
MakeDir(f, p) == WriteFile(f, p, DirNode)

\* os.remove
RemoveFile(f, p) == [q \in DOMAIN f \ {p} |-> f[q]]

\* os.rename of a regular file: an existing regular file at dst is replaced
RenameFile(f, src, dst) ==
    [q \in (DOMAIN f \ {src}) \union {dst} |-> IF q = dst THEN f[src] ELSE f[q]]

\* variant: the directory is removed only when it is empty (os.rmdir)
rmtree_ifEmpty(f, d) ==
    IF \E x \in DOMAIN f : Under(d, x) THEN f ELSE [q \in DOMAIN f \ {d} |-> f[q]]

\* shutil.rmtree
rmtree(f, d) == [q \in {x \in DOMAIN f : x # d /\ ~Under(d, x)} |-> f[q]]

\* os.path.normpath of an absolute path: lexical, ".." cancels the
\* component before it
RECURSIVE Norm(_, _)
Norm(acc, comps) ==
    IF Len(comps) = 0 THEN acc
    ELSE IF Head(comps) \in {"", "."} THEN Norm(acc, Tail(comps))
    ELSE IF Head(comps) = ".." THEN Norm(Parent(acc), Tail(comps))
    ELSE Norm(acc \o "/" \o Head(comps), Tail(comps))

normpath(p) == Norm("", Split(p))

(***************************************************************************)
(* zipfile                                                                 *)
(***************************************************************************)

\* ZipFile(cbz, 'r') raises BadZipFile unless the file is a zip container
IsZip(node) == node.kind = "zip"

\* ZipFile.namelist: the member names in archive order
namelist(zip) == [k \in 1..Len(zip.entries) |-> zip.entries[k].name]

\* ZipFile.getinfo(name): NameToInfo is filled in archive order, so the
\* entry found for a name is the last one that carries it
getinfo(zip, name) ==
    LET hits == {k \in 1..Len(zip.entries) : zip.entries[k].name = name}
    IN  zip.entries[CHOOSE k \in hits : \A j \in hits : j <= k]

\* the member names ZipFile._extract_member drops from a path
invalid_path_parts == {"", ".", ".."}

\* variant: the member name is joined to the target as it is
TargetPath_unsanitized(path, member) == normpath(PathJoin(path, member))

\* ZipFile._extract_member: the path a member is written to, the member
\* name without its empty, "." and ".." components, below the target
TargetPath(path, member) ==
    LET parts   == Split(member)
        kept    == SelectSeq(parts, LAMBDA x : x \notin invalid_path_parts)
        arcname == Join(kept)
    IN  normpath(PathJoin(path, arcname))

\* ZipInfo.is_dir
is_dir(member) == Len(member) > 0 /\ Chr(member, Len(member)) = "/"

\* ZipFile.extract(member, path) can be carried out: no regular file is in
\* the way of a directory and no directory in the way of the file
CanExtract(f, path, member) ==
    LET t == TargetPath(path, member)
    IN  /\ \A d \in Ancestors(t) : d \in DOMAIN f => f[d].kind = "dir"
        /\ (t \in DOMAIN f /\ f[t].kind = "dir") => is_dir(member)
        /\ (t \in DOMAIN f /\ f[t].kind # "dir") => ~is_dir(member)

\* ZipFile.extract(member, path): directories are made, a file member is
\* written with the data of the entry getinfo finds for the name
ZipExtract(f, zip, path, member) ==
    LET t == TargetPath(path, member)
    IN  IF is_dir(member) THEN MakeDir(f, t)
        ELSE WriteFile(f, t, getinfo(zip, member).data)

\* size of an archive written by ZipFile(.., 'w'): the end record and, per
\* entry, its headers and its data
RECURSIVE ZipBytes(_)
ZipBytes(entries) ==
    IF Len(entries) = 0 THEN 1
    ELSE 1 + Head(entries).data.bytes + ZipBytes(Tail(entries))

ZipNode(entries) == [kind |-> "zip", entries |-> entries, bytes |-> ZipBytes(entries)]

(***************************************************************************)
(* PIL                                                                     *)
(***************************************************************************)

\* Image.open succeeds on image files only (OSError otherwise)
Decodable(node) == node.kind = "img"

\* the formats Image.save has an encoder for
SaveFormats == {"jpeg", "png"}

Max(a, b) == IF a >= b THEN a ELSE b

Min(S) == CHOOSE x \in S : \A y \in S : x <= y

\* variant: the image is stretched to the requested size
thumbnail_stretch(w, h, size) == <<size[1], size[2]>>

\* Image.thumbnail(size): shrink to fit size, keeping the aspect ratio
thumbnail(w, h, size) ==
    LET y1 == IF w > size[1] THEN Max((h * size[1]) \div w, 1) ELSE h
        x1 == IF w > size[1] THEN size[1] ELSE w
        x2 == IF y1 > size[2] THEN Max((x1 * size[2]) \div y1, 1) ELSE x1
        y2 == IF y1 > size[2] THEN size[2] ELSE y1
    IN  <<x2, y2>>

\* byte size of an image of w x h pixels encoded at the given quality; the
\* encoder is a function of the pixels and the quality
EncodedBytes(img, w, h, quality) == 1 + img.detail * quality * w * h

\* the file img.save writes for img scaled to w x h
Encoded(img, w, h, quality) ==
    [kind |-> "img", w |-> w, h |-> h, fmt |-> img.fmt, detail |-> img.detail,
     bytes |-> EncodedBytes(img, w, h, quality)]

(***************************************************************************)
(* sanitize.py                                                             *)
(***************************************************************************)

Digits == "0123456789"

IsDigit(c) == \E k \in 1..Len(Digits) : Chr(Digits, k) = c

\* int() of a string of digits
RECURSIVE ToInt(_)
ToInt(s) ==
    IF Len(s) = 0 THEN 0
    ELSE 10 * ToInt(SubSeq(s, 1, Len(s) - 1))
         + (CHOOSE d \in 0..9 : Chr(Digits, d + 1) = Chr(s, Len(s)))

\* length of the longest run of digits that s starts with from position k
RECURSIVE DigitRun(_, _)
DigitRun(s, k) ==
    IF k <= Len(s) /\ IsDigit(Chr(s, k)) THEN 1 + DigitRun(s, k + 1) ELSE 0

\* convert_resize: (\d+)?x(\d+)? matched at the start of the parameter; a
\* group that is absent gives -1; no match ends the program
ResizeMatches(str) ==
    LET n == DigitRun(str, 1) IN n < Len(str) /\ Chr(str, n + 1) = "x"

convert_resize(str) ==
    LET n == DigitRun(str, 1)
        k == DigitRun(str, n + 2)
    IN  [max_x |-> IF n = 0 THEN -1 ELSE ToInt(SubSeq(str, 1, n)),
         max_y |-> IF k = 0 THEN -1 ELSE ToInt(SubSeq(str, n + 2, n + 1 + k))]

\* variant: the suffix is left out
add_filename_suffix_nosuffix(fname, suffix) == fname

\* add_filename_suffix
add_filename_suffix(fname, suffix) ==
    LET se == splitext(fname) IN se[1] \o "-" \o suffix \o se[2]

\* the test of extract on a member name
Unsafe(member) == StartsWith(member, "/") \/ StartsWith(member, "..")

\* variant: one satisfied limit is enough
Fits_either(a, img) ==
    \/ (a.max_x <= 0 \/ img.w <= a.max_x)
    \/ (a.max_y <= 0 \/ img.h <= a.max_y)

\* resize: the image already satisfies both limits
Fits(a, img) ==
    /\ (a.max_x <= 0 \/ img.w <= a.max_x)
    /\ (a.max_y <= 0 \/ img.h <= a.max_y)

\* resize: the size handed to thumbnail
ThumbSize(a, img) ==
    <<Min({x \in {a.max_x, img.w} : x > 0}), Min({y \in {a.max_y, img.h} : y > 0})>>

\* resize: the pixel size of the image that is saved
NewSize(a, img) ==
    IF Fits(a, img) THEN <<img.w, img.h>> ELSE thumbnail(img.w, img.h, ThumbSize(a, img))

\* resize: the candidate written next to the file
Candidate(a, img) ==
    LET sz == NewSize(a, img) IN Encoded(img, sz[1], sz[2], a.quality)

\* variant: a candidate of the same size replaces the file
Rejected_strict(size_before, size_after) == size_before < size_after

\* resize: the candidate is kept out when it is not smaller
Rejected(size_before, size_after) == size_before <= size_after

(***************************************************************************)
(* State                                                                   *)
(***************************************************************************)

VARIABLES
    args,     \* the parsed arguments: max_x, max_y, quality, tmp, files
    fs,       \* the filesystem
    fs0,      \* the filesystem when the processing of the current input began
    i,        \* main: index in args.files of the current input
    pc,       \* main: position in the program
    exc,      \* the exception that is propagating, "" when none
    tmpdir,   \* main: the temporary directory of the current input, "" when none
    m,        \* extract: index of the next member of namelist()
    stack,    \* resize: the active calls, each with its directory and the names left
    pending,  \* compress: os.walk, the directories still to visit, next first
    queue,    \* compress: the files of the directory being visited still to write
    stage,    \* per input, the stage its processing has reached
    last,     \* the file the last step of resize handled, with what it did
    accepted  \* resize has replaced a file by its candidate for the current input

vars == <<args, fs, fs0, i, pc, exc, tmpdir, m, stack, pending, queue, stage, last,
          accepted>>

cbz == args.files[i]

NoLast == [path |-> "", did |-> "", before |-> DirNode, cand |-> DirNode]

(***************************************************************************)
(* Inputs                                                                  *)
(***************************************************************************)

\* the longest archive of the inputs, in members
MaxEntries == 2

Raw(id, bytes) == [kind |-> "raw", id |-> id, bytes |-> bytes]

Img(w, h, bytes, fmt, detail) ==
    [kind |-> "img", w |-> w, h |-> h, fmt |-> fmt, detail |-> detail, bytes |-> bytes]

Entry(name, data) == [name |-> name, data |-> data]

\* the members the input archives are made of: pages of several sizes and
\* weights, a page name that occurs with two contents, a page in a
\* directory, a page in a format without encoder, a text file, a file with
\* the name of that directory, and names that point out of the directory
\* they are extracted to
EntrySet ==
    { Entry("a.jpg", Img(4, 2, 9, "jpeg", 1)),
      Entry("a.jpg", Img(1, 1, 5, "jpeg", 1)),
      Entry("a-resized.jpg", Img(2, 4, 3, "jpeg", 1)),
      Entry("d/b.jpg", Img(4, 2, 3, "jpeg", 1)),
      Entry("p.psd", Img(1, 1, 4, "psd", 1)),
      Entry("n.txt", Raw("n", 2)),
      Entry("d", Raw("d", 1)),
      Entry("../e", Raw("e", 1)),
      Entry("/e", Raw("e", 1)),
      Entry("d/../../e", Raw("e", 1)) }

RECURSIVE SeqsUpTo(_, _)
SeqsUpTo(S, n) ==
    IF n = 0 THEN {<< >>}
    ELSE LET shorter == SeqsUpTo(S, n - 1)
         IN  shorter \union {Append(q, e) : q \in {x \in shorter : Len(x) = n - 1}, e \in S}

\* a zip container as it is found on disk: its size is that of whatever
\* tool wrote it
ArchiveSet ==
    {[kind |-> "zip", entries |-> es, bytes |-> b] : es \in SeqsUpTo(EntrySet, MaxEntries), b \in {4}}

\* a regular file that is not a zip container
Junk == Raw("junk", 3)

\* what is found at the first and at the second input path; "none" is a
\* path with no file
NoNode == [kind |-> "none"]

\* an archive with pages in two directories
TwoDirs ==
    [kind |-> "zip", bytes |-> 4,
     entries |-> <<Entry("d/b.jpg", Img(4, 2, 3, "jpeg", 1)),
                   Entry("e/c.jpg", Img(1, 1, 5, "jpeg", 1))>>]

FirstInputs == ArchiveSet \union {Junk, NoNode, TwoDirs}

SecondInputs == {NoNode, Junk, [kind |-> "zip", entries |-> <<Entry("n.txt", Raw("n", 2))>>, bytes |-> 4]}

\* what is found at the backup path of the first input
BackupInputs == {NoNode, Raw("backup", 1)}

\* the --resize parameters of the runs, and the --quality
ResizeParams == {"2x", "x", "2x2"}

Qualities == {1, 2}

\* the filesystem the program is started on
Disk(x, xo, y) ==
    LET placed == { <<"/c/x.cbz", x>>, <<"/c/x-orig.cbz", xo>>, <<"/c/y.cbz", y>> }
        files  == {pr \in placed : pr[2].kind # "none"}
    IN  [p \in {"/c", "/t"} \union {pr[1] : pr \in files} |->
            IF p \in {"/c", "/t"} THEN DirNode
            ELSE (CHOOSE pr \in files : pr[1] = p)[2]]

\* parse: the arguments of a run
parse(resize, quality, tmp, files) ==
    LET r == convert_resize(resize)
    IN  [max_x |-> r.max_x, max_y |-> r.max_y, quality |-> quality,
         tmp |-> tmp, files |-> files]

Init ==
    /\ \E r \in ResizeParams, q \in Qualities :
          /\ ResizeMatches(r)
          /\ args = parse(r, q, "/t", <<"/c/x.cbz", "/c/y.cbz">>)
    /\ \E x \in FirstInputs, xo \in BackupInputs, y \in SecondInputs :
          fs = Disk(x, xo, y)
    /\ fs0 = fs
    /\ i = 1
    /\ pc = "loop"
    /\ exc = ""
    /\ tmpdir = ""
    /\ m = 0
    /\ stack = << >>
    /\ pending = << >>
    /\ queue = << >>
    /\ stage = [k \in 1..Len(args.files) |-> "PENDING"]
    /\ last = NoLast
    /\ accepted = FALSE

(***************************************************************************)
(* main                                                                    *)
(***************************************************************************)

\* tempfile.TemporaryDirectory(dir=args['tmp']): a fresh name per input
TmpName(a, k) == a.tmp \o "/w" \o Chr(Digits, k + 1)

SetStage(s) == stage' = [stage EXCEPT ![i] = s]

\* an exception leaves the stages: the with block of main is left next
Raise(e) == exc' = e /\ pc' = "leave"

\* for cbz in args['files']: with tempfile.TemporaryDirectory(...) as tmpdir
Enter ==
    /\ pc = "loop"
    /\ i <= Len(args.files)
    /\ tmpdir' = TmpName(args, i)
    /\ fs' = MakeDir(fs, tmpdir')
    /\ fs0' = fs
    /\ accepted' = FALSE
    /\ pc' = "check"
    /\ UNCHANGED <<args, i, exc, m, stack, pending, queue, stage, last>>

\* variant: the missing input is reported but the loop body goes on
CheckFile_nocontinue ==
    /\ pc = "check"
    /\ pc' = "extract" /\ SetStage("EXTRACTING")
    /\ m' = 0
    /\ UNCHANGED <<args, fs, fs0, i, exc, tmpdir, stack, pending, queue, last, accepted>>

\* if not os.path.isfile(cbz): continue
CheckFile ==
    /\ pc = "check"
    /\ IF isfile(fs, cbz)
       THEN pc' = "extract" /\ SetStage("EXTRACTING")
       ELSE pc' = "leave" /\ SetStage("SKIPPED")
    /\ m' = 0
    /\ UNCHANGED <<args, fs, fs0, i, exc, tmpdir, stack, pending, queue, last, accepted>>

\* the end of the with block: the temporary directory is removed, then the
\* loop goes on or the exception ends the program
Leave ==
    /\ pc = "leave"
    /\ fs' = rmtree(fs, tmpdir)
    /\ tmpdir' = ""
    /\ IF exc = "" THEN pc' = "loop" /\ i' = i + 1
                   ELSE pc' = "crashed" /\ i' = i
    /\ stack' = << >> /\ pending' = << >> /\ queue' = << >> /\ m' = 0
    /\ UNCHANGED <<args, fs0, exc, stage, last, accepted>>

\* the loop is exhausted: main returns
Exit ==
    /\ pc = "loop"
    /\ i > Len(args.files)
    /\ pc' = "exit"
    /\ UNCHANGED <<args, fs, fs0, i, exc, tmpdir, m, stack, pending, queue, stage, last, accepted>>

\* a signal (KeyboardInterrupt) while an input is being processed
Interrupt ==
    /\ pc \in {"check", "extract", "members", "resize", "compress", "open", "walk"}
    /\ Raise("KeyboardInterrupt")
    /\ UNCHANGED <<args, fs, fs0, i, tmpdir, m, stack, pending, queue, stage, last, accepted>>

(***************************************************************************)
(* extract                                                                 *)
(***************************************************************************)

\* resize(args, tmpdir) is entered: for fname in sorted(os.listdir(tmpdir))
Frame(f, dir) == [dir |-> dir, todo |-> sorted(listdir(f, dir))]

\* extract returns and main calls resize
ToResize ==
    /\ pc' = "resize"
    /\ stack' = <<Frame(fs, tmpdir)>>
    /\ SetStage("NORMALIZING")

\* with zipfile.ZipFile(cbz, 'r'); BadZipFile is logged and extract returns
ExtractOpen ==
    /\ pc = "extract"
    /\ IF IsZip(fs[cbz])
       THEN pc' = "members" /\ m' = 1 /\ UNCHANGED <<stack, stage>>
       ELSE ToResize /\ m' = 0
    /\ UNCHANGED <<args, fs, fs0, i, exc, tmpdir, pending, queue, last, accepted>>

\* one round of: for member in cbzzip.namelist()
ExtractMember ==
    /\ pc = "members"
    /\ m <= Len(namelist(fs[cbz]))
    /\ LET member == namelist(fs[cbz])[m]
       IN  IF Unsafe(member)
           THEN Raise("SecurityException") /\ UNCHANGED <<fs, m>>
           ELSE IF exists(fs, tmpdir \o "/" \o member)
           THEN m' = m + 1 /\ UNCHANGED <<fs, pc, exc>>
           ELSE IF ~CanExtract(fs, tmpdir, member)
           THEN Raise("OSError") /\ UNCHANGED <<fs, m>>
           ELSE /\ fs' = ZipExtract(fs, fs[cbz], tmpdir, member)
                /\ m' = m + 1
                /\ UNCHANGED <<pc, exc>>
    /\ UNCHANGED <<args, fs0, i, tmpdir, stack, pending, queue, stage, last, accepted>>

\* the members are exhausted: extract returns
ExtractReturn ==
    /\ pc = "members"
    /\ m > Len(namelist(fs[cbz]))
    /\ ToResize
    /\ UNCHANGED <<args, fs, fs0, i, exc, tmpdir, m, pending, queue, last, accepted>>

(***************************************************************************)
(* resize                                                                  *)
(***************************************************************************)

Outcome(f, did, e, path, before, cand) ==
    [fs |-> f, exc |-> e,
     last |-> [path |-> path, did |-> did, before |-> before, cand |-> cand]]

\* the body of the loop of resize for a name that is not a directory
ResizeFile(a, f, filepath) ==
    LET filepath_resized == add_filename_suffix(filepath, "resized")
    IN  IF filepath \notin DOMAIN f \/ ~Decodable(f[filepath])
        THEN \* Image.open raises OSError: logged, next name
             Outcome(f, "skipped", "", filepath, DirNode, DirNode)
        ELSE LET img  == f[filepath]
                 cand == Candidate(a, img)
             IN  IF img.fmt \notin SaveFormats
                 THEN \* img.save finds no encoder for img.format
                      Outcome(f, "raised", "KeyError", filepath, img, DirNode)
                 ELSE IF filepath_resized \in DOMAIN f /\ f[filepath_resized].kind = "dir"
                 THEN \* img.save cannot open a directory for writing
                      Outcome(f, "raised", "OSError", filepath, img, DirNode)
                 ELSE LET saved       == WriteFile(f, filepath_resized, cand)
                          size_before == getsize(saved, filepath)
                          size_after  == getsize(saved, filepath_resized)
                      IN  IF Rejected(size_before, size_after)
                          THEN Outcome(RemoveFile(saved, filepath_resized),
                                       "rejected", "", filepath, img, cand)
                          ELSE Outcome(RenameFile(saved, filepath_resized, filepath),
                                       "accepted", "", filepath, img, cand)

\* one round of the loop of the innermost active call of resize: the call
\* returns when no name is left, a directory is entered by a nested call,
\* a file is handled by ResizeFile
ResizeRound(a, f, stk) ==
    LET top   == stk[Len(stk)]
        below == SubSeq(stk, 1, Len(stk) - 1)
    IN  IF Len(top.todo) = 0
        THEN [fs |-> f, stack |-> below, exc |-> "", last |-> NoLast]
        ELSE LET fname    == Head(top.todo)
                 filepath == PathJoin(top.dir, fname)
                 rest     == Append(below, [dir |-> top.dir, todo |-> Tail(top.todo)])
             IN  IF filepath \in DOMAIN f /\ f[filepath].kind = "dir"
                 THEN [fs |-> f, stack |-> Append(rest, Frame(f, filepath)),
                       exc |-> "", last |-> NoLast]
                 ELSE LET o == ResizeFile(a, f, filepath)
                      IN  [fs |-> o.fs, stack |-> rest, exc |-> o.exc, last |-> o.last]

\* resize run to its end from the given calls: the filesystem it leaves,
\* with the exception that ended it and whether a candidate was accepted
RECURSIVE ResizeRun(_, _, _, _)
ResizeRun(a, f, stk, acc) ==
    IF Len(stk) = 0 THEN [fs |-> f, exc |-> "", accepted |-> acc]
    ELSE LET r == ResizeRound(a, f, stk)
         IN  IF r.exc # "" THEN [fs |-> r.fs, exc |-> r.exc, accepted |-> acc]
             ELSE ResizeRun(a, r.fs, r.stack, acc \/ r.last.did = "accepted")

\* a step of resize; when the outermost call returns main calls compress
ResizeStep ==
    /\ pc = "resize"
    /\ LET r == ResizeRound(args, fs, stack)
       IN  /\ fs' = r.fs
           /\ stack' = r.stack
           /\ last' = IF r.last = NoLast THEN last ELSE r.last
           /\ accepted' = (accepted \/ r.last.did = "accepted")
           /\ IF r.exc # "" THEN Raise(r.exc) /\ UNCHANGED stage
              ELSE IF Len(r.stack) = 0
              THEN pc' = "compress" /\ SetStage("REPACKAGING") /\ UNCHANGED exc
              ELSE UNCHANGED <<pc, exc, stage>>
    /\ UNCHANGED <<args, fs0, i, tmpdir, m, pending, queue>>

(***************************************************************************)
(* compress                                                                *)
(***************************************************************************)

\* cbz_old = add_filename_suffix(cbz, 'orig'); os.rename(cbz, cbz_old)
CompressRename ==
    /\ pc = "compress"
    /\ LET cbz_old == add_filename_suffix(cbz, "orig")
       IN  IF cbz_old \in DOMAIN fs /\ fs[cbz_old].kind = "dir"
           THEN Raise("OSError") /\ UNCHANGED fs
           ELSE fs' = RenameFile(fs, cbz, cbz_old) /\ pc' = "open" /\ UNCHANGED exc
    /\ UNCHANGED <<args, fs0, i, tmpdir, m, stack, pending, queue, stage, last, accepted>>

\* with zipfile.ZipFile(cbz, 'w', zipfile.ZIP_DEFLATED); os.walk(tmpdir)
CompressOpen ==
    /\ pc = "open"
    /\ fs' = WriteFile(fs, cbz, ZipNode(<< >>))
    /\ pending' = <<tmpdir>>
    /\ queue' = << >>
    /\ pc' = "walk"
    /\ UNCHANGED <<args, fs0, i, exc, tmpdir, m, stack, stage, last, accepted>>

SeqToSet(q) == {q[k] : k \in 1..Len(q)}

\* the orders a directory listing can come in
Orders(S) == {q \in [1..Cardinality(S) -> S] : SeqToSet(q) = S}

\* os.walk yields the next directory: its files are taken in sorted order,
\* its directories are visited next, in the order of the listing
CompressWalk ==
    /\ pc = "walk"
    /\ Len(queue) = 0
    /\ Len(pending) > 0
    /\ LET root  == Head(pending)
           names == listdir(fs, root)
           dirs  == {n \in names : fs[PathJoin(root, n)].kind = "dir"}
           files == names \ dirs
       IN  /\ queue' = [k \in 1..Cardinality(files) |-> PathJoin(root, sorted(files)[k])]
           /\ \E order \in Orders(dirs) :
                 pending' = [k \in 1..Len(order) |-> PathJoin(root, order[k])] \o Tail(pending)
    /\ UNCHANGED <<args, fs, fs0, i, pc, exc, tmpdir, m, stack, stage, last, accepted>>

\* cbzzip.write(filepath, arcname=os.path.relpath(filepath, tmpdir))
CompressWrite ==
    /\ pc = "walk"
    /\ Len(queue) > 0
    /\ LET filepath == Head(queue)
           arcname  == relpath(filepath, tmpdir)
       IN  fs' = WriteFile(fs, cbz, ZipNode(Append(fs[cbz].entries, Entry(arcname, fs[filepath]))))
    /\ queue' = Tail(queue)
    /\ UNCHANGED <<args, fs0, i, pc, exc, tmpdir, m, stack, pending, stage, last, accepted>>

\* variant: an archive that is not smaller gives way to the original again
CompressClose_keepIfSmaller ==
    /\ pc = "walk"
    /\ Len(queue) = 0
    /\ Len(pending) = 0
    /\ pc' = "leave"
    /\ SetStage("DONE")
    /\ LET cbz_old == add_filename_suffix(cbz, "orig")
       IN  fs' = IF fs[cbz].bytes < fs[cbz_old].bytes THEN fs
                 ELSE RenameFile(fs, cbz_old, cbz)
    /\ UNCHANGED <<args, fs0, i, exc, tmpdir, m, stack, pending, queue, last, accepted>>

\* the walk is over: the archive is closed and compress returns
CompressClose ==
    /\ pc = "walk"
    /\ Len(queue) = 0
    /\ Len(pending) = 0
    /\ pc' = "leave"
    /\ SetStage("DONE")
    /\ UNCHANGED <<args, fs, fs0, i, exc, tmpdir, m, stack, pending, queue, last, accepted>>

Next ==
    \/ Enter
    \/ CheckFile
    \/ ExtractOpen
    \/ ExtractMember
    \/ ExtractReturn
    \/ ResizeStep
    \/ CompressRename
    \/ CompressOpen
    \/ CompressWalk
    \/ CompressWrite
    \/ CompressClose
    \/ Leave
    \/ Exit
    \/ Interrupt

Spec == Init /\ [][Next]_vars

(***************************************************************************)
(* Properties                                                              *)
(***************************************************************************)

\* the backup path of an input
BackupPath(p) == add_filename_suffix(p, "orig")

\* p is the temporary directory of the current input or lies in it
InTmp(p) == p = tmpdir \/ Under(tmpdir, p)

\* an input is being processed or its processing has just ended; fs0 is
\* then the filesystem its processing began on
Active ==
    /\ i \in 1..Len(args.files)
    /\ stage[i] \in {"EXTRACTING", "NORMALIZING", "REPACKAGING", "DONE"}

\* compress has returned for the current input, the with block is not left yet
Repacked == pc = "leave" /\ exc = "" /\ Active /\ stage[i] = "DONE"

Terminal == {"DONE", "SKIPPED", "FAILED"}

\* index of the first member of the archive that carries the name
FirstIndex(zip, name) ==
    Min({k \in 1..Len(zip.entries) : zip.entries[k].name = name})

\* the regular files of the working tree
TreeFiles == {p \in DOMAIN fs : Under(tmpdir, p) /\ fs[p].kind # "dir"}

\* what C1 asks of a step
ExtractStepInTmpdir ==
    pc \in {"extract", "members"} =>
       \A p \in DOMAIN fs \union DOMAIN fs' :
          ~InTmp(p) => (p \in DOMAIN fs /\ p \in DOMAIN fs' /\ fs'[p] = fs[p])

\* C1: no step of extract creates, changes or removes a path outside the
\* temporary directory, whatever the member names are: a name that is
\* absolute or begins with ".." is refused, a ".." further in is dropped
C1_ExtractStaysInTmpdir == [][ExtractStepInTmpdir]_vars

\* C1 witness: a member with a ".." component after its first segment has
\* been extracted, to a path in the temporary directory
C1_Witness ==
    /\ pc = "members"
    /\ \E k \in 1..(m - 1) :
          LET member == namelist(fs[cbz])[k]
          IN  /\ ".." \in SeqToSet(Split(member))
              /\ TargetPath(tmpdir, member) \in DOMAIN fs
              /\ InTmp(TargetPath(tmpdir, member))

\* what C2 asks of a step
CollisionStepAborts ==
    (pc = "compress" /\ BackupPath(cbz) \in DOMAIN fs) =>
        /\ cbz \in DOMAIN fs' /\ fs'[cbz] = fs[cbz]
        /\ BackupPath(cbz) \in DOMAIN fs' /\ fs'[BackupPath(cbz)] = fs[BackupPath(cbz)]

\* C2, as claimed: when compress starts with a file at the backup path, its
\* step leaves the input at its path and the backup as it was
C2_BackupCollisionAborts == [][CollisionStepAborts]_vars

\* C3, as claimed: when the work on an input that is a regular file but no
\* zip container has ended, it has not reached normalization or
\* repackaging, the input is at its path unchanged and nothing new is at
\* its backup path
C3_CorruptArchiveUntouched ==
    (pc = "leave" /\ exc = "" /\ Active /\ cbz \in DOMAIN fs0 /\ fs0[cbz].kind = "raw") =>
        /\ stage[i] \notin {"NORMALIZING", "REPACKAGING", "DONE"}
        /\ cbz \in DOMAIN fs /\ fs[cbz] = fs0[cbz]
        /\ BackupPath(cbz) \in DOMAIN fs <=> BackupPath(cbz) \in DOMAIN fs0

\* C4, as claimed: when an error of a stage has ended the work on an input,
\* every later input has still been processed to a terminal stage
C4_BatchSurvivesErrors ==
    (pc = "crashed" /\ exc \in {"SecurityException", "KeyError", "OSError"}) =>
        \A k \in (i + 1)..Len(args.files) : stage[k] \in Terminal

\* C5, as claimed: once a member is refused for path traversal, every later
\* member with a safe name not seen before is in the working directory
\* when extraction is over
C5_TraversalSkipsOnlyThatEntry ==
    (pc = "leave" /\ exc = "SecurityException") =>
        LET names == namelist(fs[cbz])
        IN  \A k \in (m + 1)..Len(names) :
               (~Unsafe(names[k]) /\ \A j \in 1..(k - 1) : names[j] # names[k])
                  => TargetPath(tmpdir, names[k]) \in DOMAIN fs

\* C6, as claimed: every member name extract has passed is one file of the
\* working tree, with the content of the first member of that name
C6_FirstOccurrenceWins ==
    pc = "members" =>
        \A k \in 1..(m - 1) :
           LET name == namelist(fs[cbz])[k]
               t    == TargetPath(tmpdir, name)
           IN  /\ t \in DOMAIN fs
               /\ fs[t] = fs[cbz].entries[FirstIndex(fs[cbz], name)].data

\* C7, as claimed: when compress has returned, the input path holds a new
\* archive only if that is smaller than the original, else the original
C7_ReplacedOnlyIfSmaller ==
    Repacked => (fs[cbz] = fs0[cbz] \/ fs[cbz].bytes < fs0[cbz].bytes)

\* C7, amended: when compress has returned, the input path holds the
\* archive of the files of the working tree, whatever its size, and the
\* backup path holds the file the input path held before
C7_ReplacedWheneverRepacked ==
    Repacked =>
        /\ fs[cbz].kind = "zip"
        /\ {e.name : e \in SeqToSet(fs[cbz].entries)} = {relpath(p, tmpdir) : p \in TreeFiles}
        /\ \A e \in SeqToSet(fs[cbz].entries) : e.data = fs[PathJoin(tmpdir, e.name)]
        /\ BackupPath(cbz) \in DOMAIN fs /\ fs[BackupPath(cbz)] = fs0[cbz]

\* C7 witness: compress has returned and the new archive at the input path
\* is not smaller than the original
C7_Witness ==
    /\ Repacked
    /\ fs[cbz] # fs0[cbz]
    /\ fs[cbz].bytes >= fs0[cbz].bytes

\* C8: after resize has handled an image and written its candidate, the
\* candidate path is gone and the file holds its old bytes if the candidate
\* was not smaller, the candidate's bytes if it was; and when resize has
\* finished without accepting a candidate, a second run over the tree
\* changes nothing
C8_KeepIfSmaller ==
    /\ (pc \in {"resize", "compress", "open", "walk"} /\ last.did \in {"rejected", "accepted"}
        /\ Under(tmpdir, last.path)) =>
          /\ add_filename_suffix(last.path, "resized") \notin DOMAIN fs
          /\ last.path \in DOMAIN fs
          /\ fs[last.path] = IF last.before.bytes <= last.cand.bytes
                             THEN last.before ELSE last.cand
    /\ (pc = "compress" /\ ~accepted) =>
          LET again == ResizeRun(args, fs, <<Frame(fs, tmpdir)>>, FALSE)
          IN  again.exc = "" /\ again.fs = fs /\ ~again.accepted

\* C8 witness: resize has finished, its last candidate was of the size of
\* the file or larger and was discarded, and no candidate was accepted
C8_Witness ==
    /\ pc = "compress"
    /\ ~accepted
    /\ last.did = "rejected"
    /\ Under(tmpdir, last.path)
    /\ last.before.bytes <= last.cand.bytes
    /\ last.before # last.cand

\* what C9 asks of a step
OriginalKeptByStep ==
    (Active' /\ i' = i) =>
        /\ \/ (cbz \in DOMAIN fs' /\ fs'[cbz] = fs0'[cbz])
           \/ (BackupPath(cbz) \in DOMAIN fs' /\ fs'[BackupPath(cbz)] = fs0'[cbz])
        /\ (Active /\ pc \in {"open", "walk", "leave"} /\ stage[i] \in {"REPACKAGING", "DONE"}
            /\ BackupPath(cbz) \in DOMAIN fs /\ fs[BackupPath(cbz)] = fs0[cbz]
            /\ (cbz \notin DOMAIN fs \/ fs[cbz] # fs0[cbz])) =>
               /\ BackupPath(cbz) \in DOMAIN fs' /\ fs'[BackupPath(cbz)] = fs0[cbz]
               /\ cbz \in DOMAIN fs =>
                     /\ cbz \in DOMAIN fs'
                     /\ Len(fs'[cbz].entries) >= Len(fs[cbz].entries)
                     /\ SubSeq(fs'[cbz].entries, 1, Len(fs[cbz].entries)) = fs[cbz].entries

\* C9: while an input is processed, and after an error or interrupt, the
\* file the input path held is at the input path or at the backup path;
\* once the input path no longer holds it the backup path does, and an
\* output that has been started stays at the input path with its entries
C9_OriginalNeverLost == [][OriginalKeptByStep]_vars

\* C9 witness: an interrupt has ended repackaging while files were still to
\* be written; the partial output is at the input path, the original at
\* the backup path
C9_Witness ==
    /\ pc = "leave"
    /\ exc = "KeyboardInterrupt"
    /\ Active
    /\ stage[i] = "REPACKAGING"
    /\ Len(queue) > 0
    /\ cbz \in DOMAIN fs /\ fs[cbz].kind = "zip" /\ fs[cbz] # fs0[cbz]
    /\ BackupPath(cbz) \in DOMAIN fs /\ fs[BackupPath(cbz)] = fs0[cbz]

\* C10, as claimed: when compress has returned, every member of the new
\* archive is a decodable image
C10_NoNonImageMembers ==
    Repacked => \A e \in SeqToSet(fs[cbz].entries) : Decodable(e.data)

\* the names of the members of an archive
EntryNames(zip) == {e.name : e \in SeqToSet(zip.entries)}

\* the member names of the archive are pairwise different, none is absolute
\* or has a ".." component, and none is a directory of another
PlainNames(zip) ==
    LET names == namelist(zip)
    IN  /\ \A j, k \in 1..Len(names) : j # k => names[j] # names[k]
        /\ \A k \in 1..Len(names) :
              /\ ~StartsWith(names[k], "/")
              /\ ".." \notin SeqToSet(Split(names[k]))
        /\ \A j, k \in 1..Len(names) : ~Under(names[j], names[k])

\* C11, as claimed: when compress has returned for an archive with plain
\* member names whose images are all within the limits, the new archive
\* has one member per member name of the input, and no other
C11_NamesPreserved ==
    (Repacked /\ cbz \in DOMAIN fs0 /\ IsZip(fs0[cbz]) /\ PlainNames(fs0[cbz])
     /\ \A e \in SeqToSet(fs0[cbz].entries) : Decodable(e.data) => Fits(args, e.data)) =>
        /\ EntryNames(fs[cbz]) = EntryNames(fs0[cbz])
        /\ Len(fs[cbz].entries) = Cardinality(EntryNames(fs0[cbz]))

\* the directories that exist in the directory the temporary directories
\* are made in
WorkDirs == {PathJoin(args.tmp, n) : n \in listdir(fs, args.tmp)}

\* C12: the only working directory that exists at any time is that of the
\* input being processed; it exists from the start of the with block to its
\* end, and none exists between two inputs, after the batch, or after an
\* exception has left the with block
C12_TmpdirScoped ==
    /\ WorkDirs \subseteq {tmpdir}
    /\ pc \in {"loop", "exit", "crashed"} =>
          /\ tmpdir = ""
          /\ \A p \in DOMAIN fs : ~Under(args.tmp, p)
    /\ pc \notin {"loop", "exit", "crashed"} =>
          /\ tmpdir = TmpName(args, i)
          /\ WorkDirs = {tmpdir}
          /\ fs[tmpdir].kind = "dir"

\* C12 witness: an exception of resize has left the with block of the first
\* input, whose working directory held files, and no working directory is
\* left
C12_Witness ==
    /\ pc = "crashed"
    /\ exc = "KeyError"
    /\ i = 1
    /\ last.did = "raised"
    /\ Parent(last.path) = TmpName(args, 1)
    /\ WorkDirs = {}

\* what C13 asks of a step
SkipStep ==
    /\ (pc = "check" /\ pc' # "check" /\ exc' = "") =>
          /\ stage'[i] = "SKIPPED" <=> ~isfile(fs, cbz)
          /\ ~isfile(fs, cbz) => (pc' = "leave" /\ fs' = fs)
    /\ \A k \in 1..Len(args.files) :
          /\ stage'[k] = "SKIPPED" => stage[k] \in {"PENDING", "SKIPPED"}
          /\ stage[k] = "SKIPPED" => stage'[k] = "SKIPPED"
    /\ (pc = "leave" /\ stage[i] = "SKIPPED") =>
          /\ pc' = "loop"
          /\ i' = i + 1
          /\ fs' = fs0

\* C13: an input path that is no regular file takes its input from PENDING
\* to SKIPPED in the step that tests it, without a step of extract, resize
\* or compress and without a change of the filesystem; the with block is
\* left next, the filesystem is then as it was before the input and the
\* loop is at the next input
C13_MissingInputSkipped == [][SkipStep]_vars

\* C13 witness: the first input path held no file and was skipped, the
\* second input is being extracted
C13_Witness ==
    /\ i = 2
    /\ stage[1] = "SKIPPED"
    /\ "/c/x.cbz" \notin DOMAIN fs
    /\ pc = "members"
    /\ stage[2] = "EXTRACTING"

(***************************************************************************)
(* resize on one page                                                      *)
(***************************************************************************)

\* the largest width and height of the page, and the largest limit
MaxDim == 8

MaxLimit == 7

\* str() of a natural number
RECURSIVE ToStr(_)
ToStr(n) ==
    IF n < 10 THEN Chr(Digits, n + 1)
    ELSE ToStr(n \div 10) \o Chr(Digits, (n % 10) + 1)

\* a numeric group of the --resize parameter: absent for -1
Group(n) == IF n < 0 THEN "" ELSE ToStr(n)

\* the --resize parameters: each group absent, 0, or a limit
ResizeStrings == {Group(x) \o "x" \o Group(y) : x, y \in (-1)..MaxLimit}

\* the byte sizes of the page as found in the archive
PageBytes == {3, 100}

\* an archive of one page
PageArchive(w, h, b) ==
    [kind |-> "zip", entries |-> <<Entry("a.jpg", Img(w, h, b, "jpeg", 1))>>, bytes |-> 4]

\* the program has extracted an archive of one page and main calls resize
InitResize ==
    /\ \E r \in ResizeStrings, q \in Qualities :
          /\ ResizeMatches(r)
          /\ args = parse(r, q, "/t", <<"/c/x.cbz", "/c/y.cbz">>)
    /\ \E w, h \in 1..MaxDim, b \in PageBytes :
          /\ fs0 = Disk(PageArchive(w, h, b), NoNode, NoNode)
          /\ fs = ZipExtract(MakeDir(fs0, TmpName(args, 1)), fs0["/c/x.cbz"],
                             TmpName(args, 1), "a.jpg")
    /\ i = 1
    /\ pc = "resize"
    /\ exc = ""
    /\ tmpdir = TmpName(args, 1)
    /\ m = 2
    /\ stack = <<Frame(fs, tmpdir)>>
    /\ pending = << >>
    /\ queue = << >>
    /\ stage = [k \in 1..Len(args.files) |-> IF k = 1 THEN "NORMALIZING" ELSE "PENDING"]
    /\ last = NoLast
    /\ accepted = FALSE

NextResize == ResizeStep

SpecResize == InitResize /\ [][NextResize]_vars

\* resize has handled the page: last tells what it did
PageHandled ==
    /\ pc \in {"resize", "compress"}
    /\ last.did \in {"rejected", "accepted"}

Abs(n) == IF n < 0 THEN -n ELSE n

\* C14: for a page of W x H that exceeds a limit, with both limits given,
\* the size w x h resize asks for is within both limits, not larger than
\* the page on either axis, has one axis at its limit, and the other axis
\* is the proportional value rounded to a neighbouring integer
C14_ThumbnailWithinBox ==
    (PageHandled /\ args.max_x > 0 /\ args.max_y > 0
     /\ (last.before.w > args.max_x \/ last.before.h > args.max_y)) =>
        LET W == last.before.w
            H == last.before.h
            w == last.cand.w
            h == last.cand.h
        IN  /\ 1 <= w /\ w <= args.max_x /\ w <= W
            /\ 1 <= h /\ h <= args.max_y /\ h <= H
            /\ w = args.max_x \/ h = args.max_y
            /\ Abs(h * W - H * w) < W \/ Abs(w * H - W * h) < H

\* C14 witness: a page that exceeded both limits was scaled down by the
\* height limit, to a width below the width limit
C14_Witness ==
    /\ PageHandled
    /\ args.max_x > 0 /\ args.max_y > 1
    /\ last.before.w > args.max_x /\ last.before.h > args.max_y
    /\ last.cand.h = args.max_y
    /\ 1 < last.cand.w /\ last.cand.w < args.max_x
    /\ last.did = "accepted"

(***************************************************************************)
(* rename.py                                                               *)
(***************************************************************************)

EndsWith(s, suffix) ==
    Len(s) >= Len(suffix) /\ SubSeq(s, Len(s) - Len(suffix) + 1, Len(s)) = suffix

\* the rest of (.*)_\d+\.cbz matches s from position k on
MatchesAt(s, k) ==
    /\ Chr(s, k) = "_"
    /\ LET n == DigitRun(s, k + 1)
       IN  n >= 1 /\ k + n + 4 <= Len(s) /\ SubSeq(s, k + n + 1, k + n + 4) = ".cbz"

\* regex.match(cbz): the pattern is matched from the start of the name and
\* need not reach its end
RenameMatches(s) == \E k \in 1..Len(s) : MatchesAt(s, k)

\* match.group(1): the first group is greedy, it ends at the last position
\* the rest of the pattern matches from
RenameGroup(s) ==
    LET k == CHOOSE j \in 1..Len(s) :
                /\ MatchesAt(s, j)
                /\ \A l \in 1..Len(s) : MatchesAt(s, l) => l <= j
    IN  SubSeq(s, 1, k - 1)

\* variant: the destination name is not tested
rename_overwrite(f, name) ==
    IF ~EndsWith(name, ".cbz") \/ ~RenameMatches(name) THEN [fs |-> f, exc |-> ""]
    ELSE IF name \notin DOMAIN f THEN [fs |-> f, exc |-> "FileNotFoundError"]
    ELSE [fs |-> RenameFile(f, name, RenameGroup(name) \o ".cbz"), exc |-> ""]

\* rename: the filesystem it leaves and the exception it raises
rename(f, name) ==
    IF ~EndsWith(name, ".cbz") THEN [fs |-> f, exc |-> ""]
    ELSE IF ~RenameMatches(name) THEN [fs |-> f, exc |-> ""]
    ELSE LET newname == RenameGroup(name) \o ".cbz"
         IN  IF exists(f, newname) THEN [fs |-> f, exc |-> ""]
             ELSE IF name \notin DOMAIN f
             THEN \* os.rename of a name with no file
                  [fs |-> f, exc |-> "FileNotFoundError"]
             ELSE [fs |-> RenameFile(f, name, newname), exc |-> ""]

\* the longest list of names rename.py is started with
MaxNames == 2

\* the names given to rename.py and the files found on disk: a numbered
\* archive and its destination, a numbered file that is no archive, a name
\* without number, a name with two numbers, and a name whose number is not
\* at its end
RenameNames ==
    {"/c/a_12.cbz", "/c/a.cbz", "/c/b_1.zip", "/c/a_x.cbz", "/c/a_1_2.cbz", "/c/a_3.cbz.cbz"}

RenameDisk(S) == [p \in {"/c"} \union S |-> IF p = "/c" THEN DirNode ELSE Raw(p, 1)]

\* rename.py is started: parse has returned the names
InitRename ==
    /\ \E files \in SeqsUpTo(RenameNames, MaxNames) : args = [files |-> files]
    /\ \E S \in SUBSET RenameNames : fs = RenameDisk(S)
    /\ fs0 = fs
    /\ i = 1
    /\ pc = "rename"
    /\ exc = ""
    /\ tmpdir = ""
    /\ m = 0
    /\ stack = << >>
    /\ pending = << >>
    /\ queue = << >>
    /\ stage = << >>
    /\ last = NoLast
    /\ accepted = FALSE

\* main of rename.py: for cbz in args['files']: rename(cbz)
RenameNext ==
    /\ pc = "rename"
    /\ i <= Len(args.files)
    /\ LET r == rename(fs, cbz)
       IN  /\ fs' = r.fs
           /\ exc' = r.exc
           /\ pc' = IF r.exc = "" THEN "rename" ELSE "crashed"
    /\ i' = i + 1
    /\ UNCHANGED <<args, fs0, tmpdir, m, stack, pending, queue, stage, last, accepted>>

\* the names are exhausted: main of rename.py returns
RenameExit ==
    /\ pc = "rename"
    /\ i > Len(args.files)
    /\ pc' = "exit"
    /\ UNCHANGED <<args, fs, fs0, i, exc, tmpdir, m, stack, pending, queue, stage, last, accepted>>

NextRename == RenameNext \/ RenameExit

SpecRename == InitRename /\ [][NextRename]_vars

\* the number of digits s ends with
RECURSIVE TrailingDigits(_)
TrailingDigits(s) ==
    IF Len(s) > 0 /\ IsDigit(Chr(s, Len(s)))
    THEN 1 + TrailingDigits(SubSeq(s, 1, Len(s) - 1)) ELSE 0

\* s is <base>_<digits>
Numbered(s) ==
    LET n == TrailingDigits(s)
    IN  n >= 1 /\ Len(s) > n /\ Chr(s, Len(s) - n) = "_"

\* the <base> of <base>_<digits>
Base(s) == SubSeq(s, 1, Len(s) - TrailingDigits(s) - 1)

\* the step of rename.py for a name whose file exists does what is asked
\* of names of the form <base>_<digits><ext>, and changes nothing for others
RenamesNumbered(ext) ==
    (pc = "rename" /\ i <= Len(args.files) /\ cbz \in DOMAIN fs) =>
        LET se == splitext(cbz)
        IN  IF se[2] = ext /\ Numbered(se[1])
            THEN fs' = IF Base(se[1]) \o ext \in DOMAIN fs THEN fs
                       ELSE RenameFile(fs, cbz, Base(se[1]) \o ext)
            ELSE TRUE

\* what C15 asks of a step, as claimed
RenameStepAnyExt ==
    /\ \A ext \in {".cbz", ".zip"} : RenamesNumbered(ext)
    /\ (pc = "rename" /\ i <= Len(args.files) /\ ~Numbered(splitext(cbz)[1])) => fs' = fs

\* C15, as claimed: a name of the form <base>_<digits>.<ext> is renamed to
\* <base>.<ext> unless a file has that name, then nothing is changed; a
\* name of another form is left as it is
C15_RenamesAnyExtension == [][RenameStepAnyExt]_vars

\* what C15 asks of a step, amended
RenameStepCbz ==
    /\ RenamesNumbered(".cbz")
    /\ (pc = "rename" /\ i <= Len(args.files)
        /\ (~EndsWith(cbz, ".cbz")
            \/ \A k, n \in 1..Len(cbz) :
                  ~(/\ k + n + 4 <= Len(cbz)
                    /\ Chr(cbz, k) = "_"
                    /\ \A d \in 1..n : IsDigit(Chr(cbz, k + d))
                    /\ SubSeq(cbz, k + n + 1, k + n + 4) = ".cbz"))) => fs' = fs

\* C15, amended: a name of the form <base>_<digits>.cbz is renamed to
\* <base>.cbz unless a file has that name, then nothing is changed; a name
\* that does not end in .cbz, or in which no _<digits>.cbz occurs, is left
\* as it is
C15_RenamesNumberedCbz == [][RenameStepCbz]_vars

\* C15 witness: the first name was a numbered archive with a free
\* destination and has been renamed; the second is a numbered archive whose
\* destination exists
C15_Witness ==
    /\ pc = "rename"
    /\ i = 2
    /\ Len(args.files) = 2
    /\ args.files[1] = "/c/a_1_2.cbz"
    /\ "/c/a_1_2.cbz" \in DOMAIN fs0 /\ "/c/a_1_2.cbz" \notin DOMAIN fs
    /\ "/c/a_1.cbz" \in DOMAIN fs /\ "/c/a_1.cbz" \notin DOMAIN fs0
    /\ args.files[2] = "/c/a_12.cbz"
    /\ {"/c/a_12.cbz", "/c/a.cbz"} \subseteq DOMAIN fs

\* C16, as claimed: when img.save has failed for a page, no exception
\* leaves resize, the page has its old bytes, and the walk goes on
C16_ResizeNeverRaises ==
    (Active /\ stage[i] = "NORMALIZING" /\ last.did = "raised") =>
        /\ exc \in {"", "KeyboardInterrupt"}
        /\ pc = "leave" => exc = "KeyboardInterrupt"
        /\ Under(tmpdir, last.path) =>
              (last.path \in DOMAIN fs /\ fs[last.path] = last.before)

\* the pixel size of an image
Dim(img) == <<img.w, img.h>>

RECURSIVE WalkSorted(_, _)
WalkSorted(f, pend) ==
    IF Len(pend) = 0 THEN << >>
    ELSE LET root  == Head(pend)
             names == sorted(listdir(f, root))
             dirs  == SelectSeq(names, LAMBDA n : f[PathJoin(root, n)].kind = "dir")
             files == SelectSeq(names, LAMBDA n : f[PathJoin(root, n)].kind # "dir")
         IN  [k \in 1..Len(files) |-> PathJoin(root, files[k])]
                \o WalkSorted(f, [k \in 1..Len(dirs) |-> PathJoin(root, dirs[k])] \o Tail(pend))

\* C18, as claimed: the members compress has written are, in this order,
\* the files a walk with sorted listings comes by, whatever the order of
\* the listings of the run was, and none of them is a directory
C18_OrderDeterministic ==
    Repacked =>
        LET walk == WalkSorted(fs, <<tmpdir>>)
        IN  /\ [k \in 1..Len(fs[cbz].entries) |-> fs[cbz].entries[k].name]
                  = [k \in 1..Len(walk) |-> relpath(walk[k], tmpdir)]
            /\ \A e \in SeqToSet(fs[cbz].entries) : e.data.kind # "dir"

\* what C19 asks of a step
ResizeStepTouchesOnlyItsFile ==
    (pc = "resize" /\ Len(stack) > 0 /\ Len(stack[Len(stack)].todo) > 0) =>
        LET top == stack[Len(stack)]
            F   == PathJoin(top.dir, Head(top.todo))
        IN  \A p \in DOMAIN fs \union DOMAIN fs' :
               p # F => (p \in DOMAIN fs /\ p \in DOMAIN fs' /\ fs'[p] = fs[p])

\* C19, as claimed: the step of resize for a name F of a directory leaves
\* every path other than F as it was: none is created, changed or removed
C19_ResizeFrame == [][ResizeStepTouchesOnlyItsFile]_vars

\* C20, as claimed: when resize has returned, every decodable image of the
\* working tree is within each limit that is set
C20_AllFitAfterResize ==
    pc = "compress" =>
        \A p \in TreeFiles :
           Decodable(fs[p]) =>
              /\ args.max_x >= 1 => fs[p].w <= args.max_x
              /\ args.max_y >= 1 => fs[p].h <= args.max_y

====
